---- MODULE Spec2Model ----
(***************************************************************************)
(* Model of the development-mode chunking context                          *)
(* (crates/turbopack-dev/src/chunking_context.rs): the builder, the        *)
(* path/URL resolver, the co-location classifier, the chunk converter and  *)
(* the two chunk-group assembly operations.                                *)
(*                                                                         *)
(* Strings are sequences of one-character strings, so that prefix          *)
(* stripping, substring search and slicing are computed as the code        *)
(* computes them.                                                          *)
(***************************************************************************)
EXTENDS Integers, Sequences, FiniteSets, TLC

VARIABLES ctx, phase, call, ret, chunkKind, availability, emitted

vars == <<ctx, phase, call, ret, chunkKind, availability, emitted>>

(***************************************************************************)
(* Bounds of the model.                                                    *)
(***************************************************************************)
\* deepest path (in segments) handed to the resolver and the classifier
MaxDepth == 3
\* longest content hash handed to asset_path
MaxHashLen == 9
\* number of modules of the module graph
NumModules == 3
\* longest evaluatable set handed to evaluated_chunk_group
MaxEntries == 2

(***************************************************************************)
(* Option and Result values.                                               *)
(***************************************************************************)
None == [some |-> FALSE]

Some(v) == [some |-> TRUE, v |-> v]

Ok(v) == [ok |-> TRUE, v |-> v]

Err(msg) == [ok |-> FALSE, err |-> msg]

\* an out-of-range slice aborts the call
Panic == [ok |-> FALSE, err |-> "panic"]

(***************************************************************************)
(* str operations the code calls.                                          *)
(***************************************************************************)
starts_with(s, p) == Len(p) <= Len(s) /\ SubSeq(s, 1, Len(p)) = p

strip_prefix(s, p) ==
  IF starts_with(s, p) THEN Some(SubSeq(s, Len(p) + 1, Len(s))) ELSE None

contains(s, p) ==
  \E i \in 1..(Len(s) - Len(p) + 1) : SubSeq(s, i, i + Len(p) - 1) = p

\* index of the last occurrence of character c in s, 0 when there is none
rfind(s, c) ==
  IF \E i \in 1..Len(s) : s[i] = c
  THEN CHOOSE i \in 1..Len(s) : s[i] = c /\ \A j \in (i + 1)..Len(s) : s[j] # c
  ELSE 0

\* &s[..n]: the first n characters; out of range aborts
slice_to(s, n) == IF n <= Len(s) THEN Ok(SubSeq(s, 1, n)) ELSE Panic

(***************************************************************************)
(* Text used by the model, as character sequences.                         *)
(***************************************************************************)
Slash == <<"/">>

Dot == <<".">>

s_out == <<"o", "u", "t">>

s_outer == <<"o", "u", "t", "e", "r">>

s_static == <<"s", "t", "a", "t", "i", "c">>

s_logo_png == <<"l", "o", "g", "o", ".", "p", "n", "g">>

s_x_css == <<"x", ".", "c", "s", "s">>

s_dot_css == <<".", "c", "s", "s">>

s_app == <<"a", "p", "p">>

s_dep == <<"d", "e", "p">>

s_a_js == <<"a", ".", "j", "s">>

s_b_js == <<"b", ".", "j", "s">>

s_node_modules == <<"n", "o", "d", "e", "_", "m", "o", "d", "u", "l", "e", "s">>

s_node_modulesx == s_node_modules \o <<"x">>

\* "node_modules/"
NodeModulesPrefix == s_node_modules \o Slash

\* "/node_modules/"
NodeModulesInfix == Slash \o s_node_modules \o Slash

\* "/static"
s_slash_static == Slash \o s_static

(***************************************************************************)
(* FileSystemPath: a filesystem and a normalized path relative to its      *)
(* root, without a leading slash; the root itself is the empty path.       *)
(***************************************************************************)
FSPath(fs, path) == [fs |-> fs, path |-> path]

join_path(p, name) ==
  IF p = <<>> THEN name ELSE IF name = <<>> THEN p ELSE p \o Slash \o name

join(self, name) == FSPath(self.fs, join_path(self.path, name))

parent(self) ==
  IF self.path = <<>> THEN self
  ELSE FSPath(self.fs, SubSeq(self.path, 1, rfind(self.path, "/") - 1))

file_name(self) ==
  SubSeq(self.path, rfind(self.path, "/") + 1, Len(self.path))

\* the extension of the path, without its dot
extension_ref(self) ==
  LET i == rfind(self.path, ".")
      before == SubSeq(self.path, 1, i - 1)
      ext == SubSeq(self.path, i + 1, Len(self.path))
  IN  IF i = 0 THEN None
      ELSE IF \/ contains(ext, Slash)
              \/ before = <<>>
              \/ before[Len(before)] = "/"
           THEN None
           ELSE Some(ext)

\* the path from self down to inner, when inner is inside self
get_path_to(self, inner) ==
  IF self.fs # inner.fs THEN None
  ELSE LET r == strip_prefix(inner.path, self.path)
       IN  IF ~r.some THEN None
           ELSE IF self.path = <<>> THEN Some(r.v)
           ELSE strip_prefix(r.v, Slash)

(***************************************************************************)
(* Sets of paths: every sequence of at most d segments of S.               *)
(***************************************************************************)
RECURSIVE PathsUpTo(_, _)
PathsUpTo(S, d) ==
  IF d = 0 THEN {<<>>}
  ELSE LET shorter == PathsUpTo(S, d - 1)
       IN  shorter \cup {join_path(p, s) : p \in shorter, s \in S}

AssetSegments == {s_out, s_outer, s_logo_png, s_x_css}

AssetPaths == PathsUpTo(AssetSegments, MaxDepth)

ModuleSegments == {s_app, s_node_modules, s_node_modulesx, s_b_js}

ModulePaths == PathsUpTo(ModuleSegments, MaxDepth)

OutputRoots == {<<>>, s_out}

AssetRoot == join_path(s_out, s_static)

AssetBasePaths == {None, Some(s_slash_static)}

\* the content hashes: a run of "d" with at most one character replaced
ContentHashes ==
  {[i \in 1..n |-> IF i = k THEN "e" ELSE "d"] : n \in 0..MaxHashLen, k \in 0..MaxHashLen}

(***************************************************************************)
(* DevChunkingContext::builder and the builder's setters.                  *)
(***************************************************************************)
builder(output_root, asset_root_path) ==
  [output_root |-> output_root,
   asset_root_path |-> asset_root_path,
   reference_chunk_source_maps |-> TRUE,
   reference_css_chunk_source_maps |-> TRUE,
   asset_base_path |-> None]

(***************************************************************************)
(* Path/URL resolver.                                                      *)
(***************************************************************************)
to_string(path) == path.path

\* every operation below takes ident.path(), the FileSystemPath of the identity
asset_url(this, ident_path) ==
  LET asset_path0 == to_string(ident_path)
      stripped == strip_prefix(asset_path0, this.output_root.path \o Slash)
  IN  IF ~stripped.some
      THEN Err("expected output_root to contain asset path")
      ELSE Ok((IF this.asset_base_path.some THEN this.asset_base_path.v ELSE Slash)
              \o stripped.v)

reference_chunk_source_maps(this, chunk_path) ==
  LET path == chunk_path
      e == extension_ref(path)
      extension == IF e.some THEN e.v ELSE <<>>
  IN  IF extension = s_dot_css
      THEN this.reference_css_chunk_source_maps
      ELSE this.reference_chunk_source_maps

asset_path(this, content_hash, original_asset_ident_path) ==
  LET source_path == original_asset_ident_path
      basename == file_name(source_path)
      ext == extension_ref(source_path)
      hash8 == slice_to(content_hash, 8)
  IN  IF ext.some
      THEN LET stem == slice_to(basename, Len(basename) - Len(ext.v) - 1)
           IN  IF ~stem.ok \/ ~hash8.ok THEN Panic
               ELSE Ok(join(this.asset_root_path,
                            stem.v \o Dot \o hash8.v \o Dot \o ext.v))
      ELSE IF ~hash8.ok THEN Panic
           ELSE Ok(join(this.asset_root_path, basename \o Dot \o hash8.v))

(***************************************************************************)
(* Co-location classifier.                                                 *)
(***************************************************************************)
\* the classifier without the check of a leading node_modules segment
can_be_in_same_chunk_no_prefix_check(asset_a, asset_b) ==
  LET rel_path == get_path_to(parent(asset_a), asset_b)
  IN  rel_path.some /\ ~contains(rel_path.v, NodeModulesInfix)

can_be_in_same_chunk(asset_a, asset_b) ==
  LET parent_dir == parent(asset_a)
      path == asset_b
      rel_path == get_path_to(parent_dir, path)
  IN  IF rel_path.some
      THEN IF /\ ~starts_with(rel_path.v, NodeModulesPrefix)
              /\ ~contains(rel_path.v, NodeModulesInfix)
           THEN TRUE
           ELSE FALSE
      ELSE FALSE

(***************************************************************************)
(* The module graph and the grouping algorithm.                            *)
(***************************************************************************)
Modules == 1..NumModules

\* m imports m + 1, and the last module imports its importer back
DepSeq(m) ==
  (IF m < NumModules THEN <<m + 1>> ELSE <<>>)
  \o (IF m = NumModules /\ m > 1 THEN <<m - 1>> ELSE <<>>)

Range(s) == {s[i] : i \in DOMAIN s}

\* the modules reachable from the entries, in depth-first order
RECURSIVE Visit(_, _)
Visit(stack, seen) ==
  IF stack = <<>> THEN seen
  ELSE IF Head(stack) \in Range(seen) THEN Visit(Tail(stack), seen)
  ELSE Visit(DepSeq(Head(stack)) \o Tail(stack), Append(seen, Head(stack)))

RECURSIVE SelectNotIn(_, _)
SelectNotIn(s, A) ==
  IF s = <<>> THEN <<>>
  ELSE IF Head(s) \in A THEN SelectNotIn(Tail(s), A)
  ELSE <<Head(s)>> \o SelectNotIn(Tail(s), A)

ChunkKinds == [ecmascript : BOOLEAN, output_asset : BOOLEAN]

ChunkOf(kinds, m) ==
  [type |-> "Chunk", module |-> m, ecmascript |-> kinds[m].ecmascript,
   output_asset |-> kinds[m].output_asset]

\* one chunk per reachable module that is not yet available
make_chunk_group(kinds, entries, availability_info) ==
  LET order == Visit(entries, <<>>)
      fresh == SelectNotIn(order, availability_info)
  IN  [chunks |-> [i \in DOMAIN fresh |-> ChunkOf(kinds, fresh[i])],
       availability_info |-> availability_info \cup Range(order)]

(***************************************************************************)
(* Chunk converter and the synthesized artifacts.                          *)
(***************************************************************************)
ModuleIdent(m) == <<"module", m>>

\* the identity of an entry group
GroupIdents == {<<"group", 1>>}

EcmascriptDevChunk_new(chunk) == [type |-> "EcmascriptDevChunk", chunk |-> chunk]

generate_evaluate_chunk(ident, other_chunks, evaluatable_assets) ==
  [type |-> "EcmascriptDevEvaluateChunk", ident |-> ident,
   other_chunks |-> other_chunks, evaluatable_assets |-> evaluatable_assets]

generate_chunk_list_register_chunk(ident, evaluatable_assets, other_chunks, source) ==
  [type |-> "EcmascriptDevChunkList", ident |-> ident,
   evaluatable_assets |-> evaluatable_assets, chunks |-> other_chunks,
   source |-> source]

generate_chunk(chunk) ==
  IF chunk.ecmascript THEN Ok(EcmascriptDevChunk_new(chunk))
  ELSE IF chunk.output_asset THEN Ok(chunk)
  ELSE Err("Unable to generate output asset for chunk")

RECURSIVE SelectOk(_)
SelectOk(assets) ==
  IF assets = <<>> THEN <<>>
  ELSE IF Head(assets).ok THEN <<Head(assets).v>> \o SelectOk(Tail(assets))
  ELSE SelectOk(Tail(assets))

\* a resolve loop that skips the cells that fail
resolve_all_skipping_failures(assets, availability_info) ==
  Ok([assets |-> SelectOk(assets), availability_info |-> availability_info])

\* the resolve loop: the first cell that fails fails the operation
resolve_all(assets, availability_info) ==
  IF \E i \in DOMAIN assets : ~assets[i].ok
  THEN LET i == CHOOSE i \in DOMAIN assets :
                  ~assets[i].ok /\ \A j \in 1..(i - 1) : assets[j].ok
       IN  Err(assets[i].err)
  ELSE Ok([assets |-> [i \in DOMAIN assets |-> assets[i].v],
           availability_info |-> availability_info])

(***************************************************************************)
(* Chunk group assembler.  A cell (Vc) is modelled by the Result its      *)
(* computation yields; other_chunks holds the cells of the converted      *)
(* chunks.                                                                 *)
(***************************************************************************)
\* chunk_group registering the list under the Entry tag
chunk_group_entry_tag(kinds, module, availability_info) ==
  LET r == make_chunk_group(kinds, <<module>>, availability_info)
      assets == [i \in DOMAIN r.chunks |-> generate_chunk(r.chunks[i])]
      pushed == Append(assets,
                  Ok(generate_chunk_list_register_chunk(
                       ModuleIdent(module), <<>>, assets, "Entry")))
  IN  resolve_all(pushed, r.availability_info)

\* chunk_group returning the availability it was given
chunk_group_stale_availability(kinds, module, availability_info) ==
  LET r == make_chunk_group(kinds, <<module>>, availability_info)
      assets == [i \in DOMAIN r.chunks |-> generate_chunk(r.chunks[i])]
      pushed == Append(assets,
                  Ok(generate_chunk_list_register_chunk(
                       ModuleIdent(module), <<>>, assets, "Dynamic")))
  IN  resolve_all(pushed, availability_info)

chunk_group(kinds, module, availability_info) ==
  LET r == make_chunk_group(kinds, <<module>>, availability_info)
      assets == [i \in DOMAIN r.chunks |-> generate_chunk(r.chunks[i])]
      pushed == Append(assets,
                  Ok(generate_chunk_list_register_chunk(
                       ModuleIdent(module), <<>>, assets, "Dynamic")))
  IN  resolve_all(pushed, r.availability_info)

\* evaluated_chunk_group taking other_assets after the registration is pushed
evaluated_chunk_group_late_clone(kinds, ident, evaluatable_assets, availability_info) ==
  LET r == make_chunk_group(kinds, evaluatable_assets, availability_info)
      assets == [i \in DOMAIN r.chunks |-> generate_chunk(r.chunks[i])]
      pushed1 == Append(assets,
                   Ok(generate_chunk_list_register_chunk(
                        ident, evaluatable_assets, assets, "Entry")))
      pushed2 == Append(pushed1,
                   Ok(generate_evaluate_chunk(ident, pushed1, evaluatable_assets)))
  IN  resolve_all(pushed2, r.availability_info)

\* evaluated_chunk_group leaving out the bootstrap when nothing is evaluated
evaluated_chunk_group_no_empty_bootstrap(kinds, ident, evaluatable_assets, availability_info) ==
  LET r == make_chunk_group(kinds, evaluatable_assets, availability_info)
      assets == [i \in DOMAIN r.chunks |-> generate_chunk(r.chunks[i])]
      pushed1 == Append(assets,
                   Ok(generate_chunk_list_register_chunk(
                        ident, evaluatable_assets, assets, "Entry")))
      pushed2 == IF evaluatable_assets = <<>> THEN pushed1
                 ELSE Append(pushed1,
                        Ok(generate_evaluate_chunk(ident, assets, evaluatable_assets)))
  IN  resolve_all(pushed2, r.availability_info)

evaluated_chunk_group(kinds, ident, evaluatable_assets, availability_info) ==
  LET entries == [i \in DOMAIN evaluatable_assets |-> evaluatable_assets[i]]
      r == make_chunk_group(kinds, entries, availability_info)
      assets == [i \in DOMAIN r.chunks |-> generate_chunk(r.chunks[i])]
      other_assets == assets
      pushed1 == Append(assets,
                   Ok(generate_chunk_list_register_chunk(
                        ident, evaluatable_assets, other_assets, "Entry")))
      pushed2 == Append(pushed1,
                   Ok(generate_evaluate_chunk(ident, other_assets, evaluatable_assets)))
  IN  resolve_all(pushed2, r.availability_info)

(***************************************************************************)
(* State machine.  call and ret record the last operation and its result;  *)
(* availability is the availability state of the build traversal, and      *)
(* emitted counts the chunks the traversal has produced for each module.   *)
(***************************************************************************)
NoCall == [op |-> "none"]

NoRet == Err("no call")

ScriptKinds == [m \in Modules |-> [ecmascript |-> TRUE, output_asset |-> FALSE]]

NoneEmitted == [m \in Modules |-> 0]

\* the evaluatable sets: sequences of distinct modules
EvaluatableSets ==
  {E \in UNION {[1..n -> Modules] : n \in 0..MaxEntries} :
     \A i \in DOMAIN E, j \in DOMAIN E : E[i] = E[j] => i = j}

GroupOps == {"chunk_group", "evaluated_chunk_group"}

\* the module a chunk-derived artifact was made from
ArtifactModule(a) == IF a.type = "EcmascriptDevChunk" THEN a.chunk.module ELSE a.module

IsChunkArtifact(a) == a.type \in {"EcmascriptDevChunk", "Chunk"}

EmittedBy(r, m) ==
  IF r.ok
  THEN Cardinality({i \in DOMAIN r.v.assets :
                      /\ IsChunkArtifact(r.v.assets[i])
                      /\ ArtifactModule(r.v.assets[i]) = m})
  ELSE 0

\* ---- builder ----
SetAssetBasePath ==
  /\ phase = "builder"
  /\ \E b \in AssetBasePaths : ctx' = [ctx EXCEPT !.asset_base_path = b]
  /\ UNCHANGED <<phase, call, ret, chunkKind, availability, emitted>>

SetReferenceChunkSourceMaps ==
  /\ phase = "builder"
  /\ \E b \in BOOLEAN : ctx' = [ctx EXCEPT !.reference_chunk_source_maps = b]
  /\ UNCHANGED <<phase, call, ret, chunkKind, availability, emitted>>

SetReferenceCssChunkSourceMaps ==
  /\ phase = "builder"
  /\ \E b \in BOOLEAN : ctx' = [ctx EXCEPT !.reference_css_chunk_source_maps = b]
  /\ UNCHANGED <<phase, call, ret, chunkKind, availability, emitted>>

Build ==
  /\ phase = "builder"
  /\ phase' = "built"
  /\ UNCHANGED <<ctx, call, ret, chunkKind, availability, emitted>>

\* ---- path/URL resolver ----
\* The resolver and the classifier are pure functions of the context and
\* their arguments: a behaviour makes one query, from any built context.
AssetUrl ==
  /\ phase = "built"
  /\ call = NoCall
  /\ \E p \in AssetPaths :
       /\ call' = [op |-> "asset_url", ident |-> FSPath(1, p)]
       /\ ret' = asset_url(ctx, FSPath(1, p))
  /\ UNCHANGED <<ctx, phase, chunkKind, availability, emitted>>

ReferenceChunkSourceMaps ==
  /\ phase = "built"
  /\ call = NoCall
  /\ \E p \in AssetPaths :
       /\ call' = [op |-> "reference_chunk_source_maps", chunk |-> FSPath(1, p)]
       /\ ret' = reference_chunk_source_maps(ctx, FSPath(1, p))
  /\ UNCHANGED <<ctx, phase, chunkKind, availability, emitted>>

AssetPath ==
  /\ phase = "built"
  /\ call = NoCall
  /\ \E h \in ContentHashes, p \in AssetPaths :
       /\ call' = [op |-> "asset_path", content_hash |-> h, ident |-> FSPath(1, p)]
       /\ ret' = asset_path(ctx, h, FSPath(1, p))
  /\ UNCHANGED <<ctx, phase, chunkKind, availability, emitted>>

\* ---- co-location classifier ----
CanBeInSameChunk ==
  /\ phase = "built"
  /\ call = NoCall
  /\ \E pa \in ModulePaths, pb \in ModulePaths, fsb \in {1, 2} :
       /\ call' = [op |-> "can_be_in_same_chunk",
                   asset_a |-> FSPath(1, pa), asset_b |-> FSPath(fsb, pb)]
       /\ ret' = can_be_in_same_chunk(FSPath(1, pa), FSPath(fsb, pb))
  /\ UNCHANGED <<ctx, phase, chunkKind, availability, emitted>>

\* ---- chunk group assembler, threaded through one build traversal ----
Thread(r) ==
  /\ availability' = IF r.ok THEN r.v.availability_info ELSE availability
  /\ emitted' = [m \in Modules |-> emitted[m] + EmittedBy(r, m)]

ChunkGroup ==
  /\ phase = "built"
  /\ \A m \in Modules : emitted[m] < 2
  /\ \E m \in Modules :
       LET r == chunk_group(chunkKind, m, availability)
       IN  /\ call' = [op |-> "chunk_group", module |-> m,
                       availability_info |-> availability]
           /\ ret' = r
           /\ Thread(r)
  /\ UNCHANGED <<ctx, phase, chunkKind>>

EvaluatedChunkGroup ==
  /\ phase = "built"
  /\ \A m \in Modules : emitted[m] < 2
  /\ \E id \in GroupIdents, E \in EvaluatableSets :
       LET r == evaluated_chunk_group(chunkKind, id, E, availability)
       IN  /\ call' = [op |-> "evaluated_chunk_group", ident |-> id,
                       evaluatable_assets |-> E,
                       availability_info |-> availability]
           /\ ret' = r
           /\ Thread(r)
  /\ UNCHANGED <<ctx, phase, chunkKind>>

(***************************************************************************)
(* Specifications.                                                         *)
(***************************************************************************)
\* the assembler: a built context, any assignment of chunk kinds
Init ==
  /\ ctx = builder(FSPath(1, s_out), FSPath(1, AssetRoot))
  /\ phase = "built"
  /\ call = NoCall
  /\ ret = NoRet
  /\ chunkKind \in [Modules -> ChunkKinds]
  /\ availability = {}
  /\ emitted = NoneEmitted

Next == ChunkGroup \/ EvaluatedChunkGroup

Spec == Init /\ [][Next]_vars

\* the builder and the path/URL resolver
InitResolver ==
  /\ ctx \in {builder(FSPath(1, r), FSPath(1, AssetRoot)) : r \in OutputRoots}
  /\ phase = "builder"
  /\ call = NoCall
  /\ ret = NoRet
  /\ chunkKind = ScriptKinds
  /\ availability = {}
  /\ emitted = NoneEmitted

NextResolver ==
  \/ SetAssetBasePath
  \/ SetReferenceChunkSourceMaps
  \/ SetReferenceCssChunkSourceMaps
  \/ Build
  \/ AssetUrl
  \/ ReferenceChunkSourceMaps
  \/ AssetPath

SpecResolver == InitResolver /\ [][NextResolver]_vars

\* the classifier, a pure function of the two module paths
InitClassifier ==
  /\ ctx = builder(FSPath(1, s_out), FSPath(1, AssetRoot))
  /\ phase = "built"
  /\ call = NoCall
  /\ ret = NoRet
  /\ chunkKind = ScriptKinds
  /\ availability = {}
  /\ emitted = NoneEmitted

NextClassifier == CanBeInSameChunk

SpecClassifier == InitClassifier /\ [][NextClassifier]_vars

(***************************************************************************)
(* Properties of the path/URL resolver (SpecResolver).                     *)
(***************************************************************************)
\* p lies strictly below root
IsUnder(root, p) ==
  /\ root.fs = p.fs
  /\ Len(p.path) > Len(root.path)
  /\ starts_with(p.path, root.path)
  /\ (root.path # <<>> => p.path[Len(root.path) + 1] = "/")

\* the path of p relative to root, for p below root
RelativeTo(root, p) ==
  IF root.path = <<>> THEN p.path
  ELSE SubSeq(p.path, Len(root.path) + 2, Len(p.path))

BasePathOrSlash == IF ctx.asset_base_path.some THEN ctx.asset_base_path.v ELSE Slash

\* C5: for every identity whose path lies under output_root, asset_url
\* returns (asset_base_path, or "/" when none is configured) concatenated
\* with the path relative to output_root.
C5_AssetUrlOfEveryPathUnderRoot ==
  (call.op = "asset_url" /\ IsUnder(ctx.output_root, call.ident)) =>
    /\ ret.ok
    /\ ret.v = BasePathOrSlash \o RelativeTo(ctx.output_root, call.ident)

\* C6: asset_url fails exactly when the identity's path is not under
\* output_root, whatever output_root is (the filesystem root included).
C6_AssetUrlFailsExactlyOutsideRoot ==
  call.op = "asset_url" =>
    (~ret.ok <=> ~IsUnder(ctx.output_root, call.ident))

Min(a, b) == IF a <= b THEN a ELSE b

\* the first 8 characters of a hash (all of it when it is shorter)
First8(h) == SubSeq(h, 1, Min(8, Len(h)))

\* the name the specification gives the asset: basename, hash prefix, extension
ContentAddressedName(p, h) ==
  LET segs == file_name(p)
      e == extension_ref(p)
  IN  IF e.some
      THEN SubSeq(segs, 1, Len(segs) - Len(e.v) - 1) \o Dot \o First8(h) \o Dot \o e.v
      ELSE segs \o Dot \o First8(h)

\* C7: a path is returned for every content hash supplied; it is
\* asset_root_path joined with the content-addressed name, and two hashes
\* give the same path exactly when their first 8 characters are equal.
C7_AssetPathContentAddressed ==
  call.op = "asset_path" =>
    /\ ret.ok
    /\ ret.v = join(ctx.asset_root_path,
                    ContentAddressedName(call.ident, call.content_hash))
    /\ \A h2 \in ContentHashes :
         (asset_path(ctx, h2, call.ident) = ret)
           <=> (First8(h2) = First8(call.content_hash))

\* the path ends in ".css" after a non-empty file stem
HasCssExtension(p) ==
  LET name == file_name(p)
  IN  /\ Len(name) > 4
      /\ SubSeq(name, Len(name) - 3, Len(name)) = s_dot_css

\* C9: reference_chunk_source_maps returns the CSS flag for an artifact
\* whose path extension is .css and the general flag otherwise.
C9_CssSourceMapsToggleIndependently ==
  call.op = "reference_chunk_source_maps" =>
    ret = (IF HasCssExtension(call.chunk)
           THEN ctx.reference_css_chunk_source_maps
           ELSE ctx.reference_chunk_source_maps)

(***************************************************************************)
(* Properties of the co-location classifier (SpecClassifier).              *)
(***************************************************************************)
\* the segments of a path, split at every "/"
RECURSIVE SplitSegments(_, _)
SplitSegments(s, acc) ==
  IF s = <<>> THEN <<acc>>
  ELSE IF Head(s) = "/" THEN <<acc>> \o SplitSegments(Tail(s), <<>>)
  ELSE SplitSegments(Tail(s), Append(acc, Head(s)))

\* the relative path passes through a directory named node_modules
CrossesVendorBoundary(rel) ==
  LET segs == SplitSegments(rel, <<>>)
  IN  \E i \in 1..(Len(segs) - 1) : segs[i] = s_node_modules

app_a_js == FSPath(1, s_app \o Slash \o s_a_js)

app_b_js == FSPath(1, s_app \o Slash \o s_b_js)

app_node_modules_dep_b_js ==
  FSPath(1, s_app \o Slash \o s_node_modules \o Slash \o s_dep \o Slash \o s_b_js)

\* C8: can_be_in_same_chunk(a, b) is false when the relative path from a's
\* parent directory to b passes through a node_modules directory or does not
\* exist, and true when it exists and does not; (/app/a.js,
\* /app/node_modules/dep/b.js) gives false and (/app/a.js, /app/b.js) true.
C8_VendorIsolation ==
  /\ call.op = "can_be_in_same_chunk" =>
       LET rel == get_path_to(parent(call.asset_a), call.asset_b)
       IN  /\ ~rel.some => ret = FALSE
           /\ (rel.some /\ CrossesVendorBoundary(rel.v)) => ret = FALSE
           /\ (rel.some /\ ~CrossesVendorBoundary(rel.v)) => ret = TRUE
  /\ can_be_in_same_chunk(app_a_js, app_node_modules_dep_b_js) = FALSE
  /\ can_be_in_same_chunk(app_a_js, app_b_js) = TRUE

\* a pair whose relative path starts with node_modules/ was refused
C8_Witness ==
  /\ call.op = "can_be_in_same_chunk"
  /\ get_path_to(parent(call.asset_a), call.asset_b).some
  /\ starts_with(get_path_to(parent(call.asset_a), call.asset_b).v, NodeModulesPrefix)
  /\ call.asset_a.path # <<>>
  /\ ret = FALSE

(***************************************************************************)
(* Properties of the chunk group assembler (Spec).                         *)
(***************************************************************************)
\* the entries the grouping algorithm is to be called with
EntriesOf(c) ==
  IF c.op = "chunk_group" THEN <<c.module>> ELSE c.evaluatable_assets

\* what the grouping algorithm returns for the recorded call
Grouped == make_chunk_group(chunkKind, EntriesOf(call), call.availability_info)

\* the artifact a chunk converts to, by the kind of the chunk
Converted(c) ==
  IF c.ecmascript THEN [type |-> "EcmascriptDevChunk", chunk |-> c] ELSE c

Convertible(c) == c.ecmascript \/ c.output_asset

\* the cells of a list of resolved artifacts
Cells(A) == [i \in DOMAIN A |-> Ok(A[i])]

\* the returned list starts with the converted chunks, in the order returned
StartsWithConvertedChunks ==
  /\ Len(ret.v.assets) >= Len(Grouped.chunks)
  /\ \A i \in DOMAIN Grouped.chunks : ret.v.assets[i] = Converted(Grouped.chunks[i])

ConvertedChunks == SubSeq(ret.v.assets, 1, Len(Grouped.chunks))

RegistrationOf(id, E, tag) ==
  [type |-> "EcmascriptDevChunkList", ident |-> id, evaluatable_assets |-> E,
   chunks |-> Cells(ConvertedChunks), source |-> tag]

BootstrapOf(id, E) ==
  [type |-> "EcmascriptDevEvaluateChunk", ident |-> id,
   other_chunks |-> Cells(ConvertedChunks), evaluatable_assets |-> E]

\* C1: a successful evaluated_chunk_group returns the converted chunks of
\* make_chunk_group(E, availability) in order, then the registration
\* artifact {identity, E, A, Entry}, then the bootstrap artifact
\* {identity, A, E}, with the availability make_chunk_group returned.
C1_EvaluatedGroupShape ==
  (call.op = "evaluated_chunk_group" /\ ret.ok) =>
    /\ StartsWithConvertedChunks
    /\ ret.v.assets =
         ConvertedChunks
         \o <<RegistrationOf(call.ident, call.evaluatable_assets, "Entry"),
              BootstrapOf(call.ident, call.evaluatable_assets)>>
    /\ ret.v.availability_info = Grouped.availability_info

\* an entry group of two different entries, given in descending order, that
\* produced at least two chunks
C1_Witness ==
  /\ call.op = "evaluated_chunk_group"
  /\ ret.ok
  /\ Len(call.evaluatable_assets) = 2
  /\ call.evaluatable_assets[1] > call.evaluatable_assets[2]
  /\ Len(ret.v.assets) >= 4

\* C2: a successful chunk_group returns the converted chunks of
\* make_chunk_group({m}, availability) in order, then exactly one
\* registration artifact {identity of m, empty set, A, Dynamic}, no
\* bootstrap artifact, with the availability make_chunk_group returned.
C2_LazyGroupShape ==
  (call.op = "chunk_group" /\ ret.ok) =>
    /\ StartsWithConvertedChunks
    /\ ret.v.assets =
         ConvertedChunks \o <<RegistrationOf(ModuleIdent(call.module), <<>>, "Dynamic")>>
    /\ \A i \in DOMAIN ret.v.assets :
         ret.v.assets[i].type # "EcmascriptDevEvaluateChunk"
    /\ ret.v.availability_info = Grouped.availability_info

\* a lazy group that produced at least two chunks
C2_Witness ==
  /\ call.op = "chunk_group"
  /\ ret.ok
  /\ Len(ret.v.assets) >= 3

\* C3 as stated: with an empty evaluatable set both operations return the
\* chunk-derived artifacts plus a single registration artifact with empty
\* entries, and nothing else.
C3_EmptySetOnlyRegistration ==
  /\ (call.op = "chunk_group" /\ \A i \in DOMAIN Grouped.chunks :
                                    Convertible(Grouped.chunks[i])) =>
       /\ ret.ok
       /\ ret.v.assets =
            ConvertedChunks \o <<RegistrationOf(ModuleIdent(call.module), <<>>, "Dynamic")>>
  /\ (call.op = "evaluated_chunk_group" /\ call.evaluatable_assets = <<>>) =>
       /\ ret.ok
       /\ ret.v.assets = ConvertedChunks \o <<RegistrationOf(call.ident, <<>>, "Entry")>>

\* C3 amended: with an empty evaluatable set evaluated_chunk_group succeeds
\* and returns the chunk-derived artifacts, a registration artifact with
\* empty entries and then a bootstrap artifact for the empty set; chunk_group,
\* when every chunk converts, returns the chunk-derived artifacts plus a
\* single registration artifact with empty entries.
C3_EmptySetRegistrationAndBootstrap ==
  /\ (call.op = "chunk_group" /\ \A i \in DOMAIN Grouped.chunks :
                                    Convertible(Grouped.chunks[i])) =>
       /\ ret.ok
       /\ ret.v.assets =
            ConvertedChunks \o <<RegistrationOf(ModuleIdent(call.module), <<>>, "Dynamic")>>
  /\ (call.op = "evaluated_chunk_group" /\ call.evaluatable_assets = <<>>) =>
       /\ ret.ok
       /\ ret.v.assets =
            ConvertedChunks
            \o <<RegistrationOf(call.ident, <<>>, "Entry"), BootstrapOf(call.ident, <<>>)>>

\* an entry group with nothing to evaluate returned its artifacts
C3_Witness ==
  /\ call.op = "evaluated_chunk_group"
  /\ call.evaluatable_assets = <<>>
  /\ ret.ok
  /\ Len(ret.v.assets) = 2

\* C4: generate_chunk wraps a script chunk, passes an output artifact
\* through and fails for any other chunk; a group whose chunks include one
\* of neither kind, at any position, fails as a whole, with no artifact
\* list and no updated availability.
C4_NoPartialSuccess ==
  call.op \in GroupOps =>
    /\ (\E i \in DOMAIN Grouped.chunks : ~Convertible(Grouped.chunks[i])) =>
         /\ ~ret.ok
         /\ DOMAIN ret = {"ok", "err"}
         /\ availability = call.availability_info
    /\ ret.ok =>
         \A i \in DOMAIN Grouped.chunks :
           LET c == Grouped.chunks[i]
           IN  /\ c.ecmascript =>
                    ret.v.assets[i] = [type |-> "EcmascriptDevChunk", chunk |-> c]
               /\ (~c.ecmascript /\ c.output_asset) => ret.v.assets[i] = c
    /\ (\A i \in DOMAIN Grouped.chunks : Convertible(Grouped.chunks[i])) => ret.ok

\* a group failed whose first chunk converts and whose second does not
C4_Witness ==
  /\ call.op \in GroupOps
  /\ Len(Grouped.chunks) >= 2
  /\ Convertible(Grouped.chunks[1])
  /\ ~Convertible(Grouped.chunks[2])
  /\ ~ret.ok

\* C10: along a traversal that hands each call the availability the
\* previous call returned, the grouping algorithm's availability is returned
\* unmodified, no chunk is produced for a module that was already available,
\* and so no module is emitted twice.
C10_NoReEmission ==
  /\ \A m \in Modules : emitted[m] <= 1
  /\ (call.op \in GroupOps /\ ret.ok) =>
       /\ ret.v.availability_info = Grouped.availability_info
       /\ availability = ret.v.availability_info
       /\ \A i \in DOMAIN ret.v.assets :
            IsChunkArtifact(ret.v.assets[i]) =>
              ArtifactModule(ret.v.assets[i]) \notin call.availability_info

\* a later lazy group whose entry imports an already available module
\* emitted no chunk for it
C10_Witness ==
  /\ call.op = "chunk_group"
  /\ ret.ok
  /\ call.availability_info # {}
  /\ \E m \in call.availability_info :
       /\ m \in Range(DepSeq(call.module))
       /\ emitted[m] = 1

====
